---- MODULE Spec2Model ----
(***************************************************************************)
(* A model of binutils_tools.cpp: the foreign-call dispatcher              *)
(* CFunction::__call__ driving the process-wide dyncall VM g_pCallVM, the  *)
(* trampoline/hook bridge, and the raw memory accessors of CPointer.       *)
(*                                                                         *)
(* A signature string is a sequence of one-character strings; the C        *)
(* terminator is the character NUL read at index Len + 1.  A Python value  *)
(* is a record [type, val].  Memory is an array of bytes.                  *)
(***************************************************************************)
EXTENDS Integers, Sequences, FiniteSets, TLC

\* ------------------------------------------------------------------------
\* Bounds of the model
\* ------------------------------------------------------------------------
MaxSigLen == 4        \* longest signature string, serialized dispatcher
MaxArgs == 2          \* longest argument tuple, serialized dispatcher
HookMaxSigLen == 2    \* longest signature string, hook bridge
HookMaxArgs == 1      \* longest argument tuple, hook bridge
MaxCallbacks == 1     \* longest callback list per hook and type
ConcMaxSigLen == 2    \* longest signature string, concurrent dispatcher
ConcMaxArgs == 1      \* longest argument tuple, concurrent dispatcher
BlockSize == 8        \* usable size of the one heap block
MaxTextLen == 8       \* longest text given to SetString

\* ------------------------------------------------------------------------
\* Signature characters (dyncall_signature.h, used at lines 177-232)
\* ------------------------------------------------------------------------
NUL == "NUL"
DC_SIGCHAR_ENDARG == ")"
DC_SIGCHAR_VOID == "v"
DC_SIGCHAR_BOOL == "B"
DC_SIGCHAR_CHAR == "c"
DC_SIGCHAR_UCHAR == "C"
DC_SIGCHAR_SHORT == "s"
DC_SIGCHAR_USHORT == "S"
DC_SIGCHAR_INT == "i"
DC_SIGCHAR_UINT == "I"
DC_SIGCHAR_LONG == "j"
DC_SIGCHAR_ULONG == "J"
DC_SIGCHAR_LONGLONG == "l"
DC_SIGCHAR_ULONGLONG == "L"
DC_SIGCHAR_FLOAT == "f"
DC_SIGCHAR_DOUBLE == "d"
DC_SIGCHAR_POINTER == "p"
DC_SIGCHAR_STRING == "Z"

\* The cases of the parameter switch (lines 188-202).
ParamKinds ==
  { DC_SIGCHAR_BOOL, DC_SIGCHAR_CHAR, DC_SIGCHAR_UCHAR, DC_SIGCHAR_SHORT,
    DC_SIGCHAR_USHORT, DC_SIGCHAR_INT, DC_SIGCHAR_UINT, DC_SIGCHAR_LONG,
    DC_SIGCHAR_ULONG, DC_SIGCHAR_LONGLONG, DC_SIGCHAR_ULONGLONG,
    DC_SIGCHAR_FLOAT, DC_SIGCHAR_DOUBLE, DC_SIGCHAR_POINTER, DC_SIGCHAR_STRING }

\* The cases of the return switch (lines 216-231).
ReturnKinds == ParamKinds \cup {DC_SIGCHAR_VOID}

\* The characters signature strings are drawn from: two parameter kinds, the
\* Void marker, the delimiter and one character outside the enumeration.
SigAlphabet ==
  { DC_SIGCHAR_INT, DC_SIGCHAR_UCHAR, DC_SIGCHAR_VOID, DC_SIGCHAR_ENDARG, "x" }

\* What a read of one char can yield when it is past the terminator.
AnyChar == SigAlphabet \cup {NUL}

SeqsUpTo(S, n) == UNION { [1..k -> S] : k \in 0..n }

\* ------------------------------------------------------------------------
\* Python values and their conversion (extract<T>, lines 188-202)
\* ------------------------------------------------------------------------
PyInt(n) == [type |-> "int", val |-> n]
PyStr(n) == [type |-> "str", val |-> n]

\* 200 fits every integer kind but wraps as a signed char; the str object
\* converts to no integer kind.
PyValues == { PyInt(200), PyStr(1) }

\* Width in bits of the C type named in extract<T>, and whether it is signed.
KindBits(k) ==
  CASE k \in {DC_SIGCHAR_UCHAR} -> 8
    [] k \in {DC_SIGCHAR_SHORT, DC_SIGCHAR_USHORT} -> 16
    [] OTHER -> 32

KindSigned(k) ==
  k \in {DC_SIGCHAR_SHORT, DC_SIGCHAR_INT, DC_SIGCHAR_LONG}

\* Half the number of values of a type of 8 or 16 bits.
HalfRange(bits) == IF bits = 8 THEN 128 ELSE 32768

IntegerKinds ==
  { DC_SIGCHAR_UCHAR, DC_SIGCHAR_SHORT, DC_SIGCHAR_USHORT, DC_SIGCHAR_INT,
    DC_SIGCHAR_UINT, DC_SIGCHAR_LONG, DC_SIGCHAR_ULONG }

\* extract<T>(arg) succeeds: a Python int in the range of T for the integer
\* kinds, a Python str for the string and char kinds.  Every integer of the model is
\* below 2^31, the upper end of the narrowest 32-bit kind.
Extractable(k, v) ==
  CASE k \in IntegerKinds ->
         /\ v.type = "int"
         /\ IF KindBits(k) = 32
              THEN KindSigned(k) \/ v.val >= 0
              ELSE IF KindSigned(k)
                THEN /\ v.val >= 0 - HalfRange(KindBits(k))
                     /\ v.val < HalfRange(KindBits(k))
                ELSE v.val >= 0 /\ v.val < 2 * HalfRange(KindBits(k))
    [] k \in {DC_SIGCHAR_STRING, DC_SIGCHAR_CHAR} -> v.type = "str"
    [] OTHER -> v.type = "int"

\* The dcArg* entry each parameter kind is pushed through.
DcArgFn(k) ==
  CASE k = DC_SIGCHAR_BOOL -> "dcArgBool"
    [] k \in {DC_SIGCHAR_CHAR, DC_SIGCHAR_UCHAR} -> "dcArgChar"
    [] k \in {DC_SIGCHAR_SHORT, DC_SIGCHAR_USHORT} -> "dcArgShort"
    [] k \in {DC_SIGCHAR_INT, DC_SIGCHAR_UINT} -> "dcArgInt"
    [] k \in {DC_SIGCHAR_LONG, DC_SIGCHAR_ULONG} -> "dcArgLong"
    [] k \in {DC_SIGCHAR_LONGLONG, DC_SIGCHAR_ULONGLONG} -> "dcArgLongLong"
    [] k = DC_SIGCHAR_FLOAT -> "dcArgFloat"
    [] k = DC_SIGCHAR_DOUBLE -> "dcArgDouble"
    [] OTHER -> "dcArgPointer"

\* The value the dcArg* entry receives: the unsigned kinds are passed to the
\* signed entry of the same width, so a value above the signed range wraps.
Native(k, v) ==
  IF k \in {DC_SIGCHAR_UCHAR, DC_SIGCHAR_USHORT}
       /\ v.val >= HalfRange(KindBits(k))
    THEN v.val - 2 * HalfRange(KindBits(k))
    ELSE v.val

PushedArg(k, v) == [fn |-> DcArgFn(k), val |-> Native(k, v)]

\* The dcCall* entry each return kind selects.
DcCallFn(k) ==
  CASE k = DC_SIGCHAR_VOID -> "dcCallVoid"
    [] k = DC_SIGCHAR_BOOL -> "dcCallBool"
    [] k \in {DC_SIGCHAR_CHAR, DC_SIGCHAR_UCHAR} -> "dcCallChar"
    [] k \in {DC_SIGCHAR_SHORT, DC_SIGCHAR_USHORT} -> "dcCallShort"
    [] k \in {DC_SIGCHAR_INT, DC_SIGCHAR_UINT} -> "dcCallInt"
    [] k \in {DC_SIGCHAR_LONG, DC_SIGCHAR_ULONG} -> "dcCallLong"
    [] k \in {DC_SIGCHAR_LONGLONG, DC_SIGCHAR_ULONGLONG} -> "dcCallLongLong"
    [] k = DC_SIGCHAR_FLOAT -> "dcCallFloat"
    [] k = DC_SIGCHAR_DOUBLE -> "dcCallDouble"
    [] OTHER -> "dcCallPointer"

\* ------------------------------------------------------------------------
\* Call targets
\* ------------------------------------------------------------------------
Conventions == {"CONV_CDECL", "CONV_THISCALL"}

GetDynCallConvention(eConv) ==
  IF eConv = "CONV_CDECL" THEN "DC_CALL_C_DEFAULT" ELSE "DC_CALL_C_X86_WIN32_THIS_MS"

\* Address 0 is the null function pointer, FuncAddr a function.
FuncAddr == 1
TargetAddrs == {0, FuncAddr}
\* The entry the hook manager saves for a hooked address.
Trampoline(addr) == addr + 1

CFunction(ulAddr, eConv, szParams) ==
  [m_ulAddr |-> ulAddr, m_eConv |-> eConv, m_szParams |-> szParams]

Functions(alphabet, n) ==
  { CFunction(a, c, s) : a \in TargetAddrs, c \in Conventions, s \in SeqsUpTo(alphabet, n) }

ArgLists(values, n) == SeqsUpTo(values, n)

\* The inputs of the serialized dispatcher.
SerialFunctions == Functions(SigAlphabet, MaxSigLen)
SerialArgLists == ArgLists(PyValues, MaxArgs)

\* The inputs of the hook bridge.
HookFunctions == Functions(SigAlphabet, HookMaxSigLen)
HookArgLists == ArgLists(PyValues, HookMaxArgs)
\* The functions hooks are put on: the signature plays no part in hooking.
HookTargets == { CFunction(a, "CONV_CDECL", <<>>) : a \in TargetAddrs }

\* The inputs of the concurrent dispatcher: int parameters and the delimiter,
\* on the function address (a null call returns before it reaches the VM).
ConcFunctions ==
  { f \in Functions({DC_SIGCHAR_INT, DC_SIGCHAR_ENDARG}, ConcMaxSigLen) : f.m_ulAddr # 0 }
ConcArgLists == ArgLists({PyInt(200)}, ConcMaxArgs)

\* A validity check that lets the null address through.
IsValid_Always(ulAddr) == TRUE

IsValid(ulAddr) == ulAddr # 0

\* *ptr for a 1-based index into the string: the characters, then the
\* terminator; past the terminator the read is out of bounds and yields
\* whatever the build finds there.
ReadChar(sz, i) ==
  IF i <= Len(sz) THEN {sz[i]}
  ELSE IF i = Len(sz) + 1 THEN {NUL}
  ELSE AnyChar

OutOfBounds(sz, i) == i > Len(sz) + 1

\* ------------------------------------------------------------------------
\* State
\* ------------------------------------------------------------------------
VARIABLES
  vm,         \* g_pCallVM: [mode, args]
  frame,      \* per thread: the activation of __call__ / CallTrampoline
  hooks,      \* g_pHookMngr: hooked address -> trampoline address
  callbacks,  \* g_mapCallbacks: hooked address -> type -> list of callables
  mem,        \* raw memory, one byte per address
  last        \* the last CPointer operation and what it did

vars == <<vm, frame, hooks, callbacks, mem, last>>

Threads == {1, 2}

\* A reset that leaves the pushed arguments in place.
dcReset_Keeps(v) == v

dcReset(v) == [v EXCEPT !.args = <<>>]

\* A mode change that is lost.
dcMode_Lost(v, m) == v

dcMode(v, m) == [v EXCEPT !.mode = m]
dcArg(v, a) == [v EXCEPT !.args = Append(@, a)]

IdleFrame ==
  [ pc |-> "idle", op |-> "none", target |-> CFunction(0, "CONV_CDECL", <<>>),
    f |-> CFunction(0, "CONV_CDECL", <<>>), args |-> <<>>,
    ptr |-> 1, pos |-> 0, ch |-> NUL, result |-> "none",  \* ptr is 1-based
    invoked |-> <<>>, touched |-> FALSE, oob |-> FALSE, interfered |-> FALSE,
    stale |-> FALSE ]

Active(t) == frame[t].pc \notin {"idle", "done"}

\* A thread that changes the VM while another thread is between its reset
\* and its return has interfered with that thread's call.
Interfere(fr, t) ==
  [u \in Threads |->
     IF u # t /\ fr[u].pc \notin {"idle", "done"}
       THEN [fr[u] EXCEPT !.interfered = TRUE]
       ELSE fr[u]]

Raise(t, err) ==
  frame' = [frame EXCEPT ![t].pc = "done", ![t].result = err]
\* ------------------------------------------------------------------------
\* CFunction::__call__ (lines 167-235), one action per step on the VM
\* ------------------------------------------------------------------------

\* Lines 169-172: the null check, then dcReset.  `op` and `target` record
\* the operation the caller asked for, `f` the function being dispatched.
Enter(t, op, target, f, args) ==
  LET fr == [IdleFrame EXCEPT !.op = op, !.target = target, !.f = f, !.args = args,
                              !.stale = vm.args # <<>>]
  IN IF ~IsValid(f.m_ulAddr)
       THEN /\ frame' = [frame EXCEPT ![t] =
                           [fr EXCEPT !.pc = "done", !.result = "NullPointer"]]
            /\ UNCHANGED vm
       ELSE /\ vm' = dcReset(vm)
            /\ frame' = [Interfere(frame, t) EXCEPT ![t] =
                           [fr EXCEPT !.pc = "mode", !.touched = TRUE]]

Call(t, f, args) ==
  /\ frame[t].pc = "idle"
  /\ Enter(t, "__call__", f, f, args)
  /\ UNCHANGED <<hooks, callbacks, mem, last>>

\* Line 173.
SetMode(t) ==
  /\ frame[t].pc = "mode"
  /\ vm' = dcMode(vm, GetDynCallConvention(frame[t].f.m_eConv))
  /\ frame' = [Interfere(frame, t) EXCEPT ![t].pc = "loop"]
  /\ UNCHANGED <<hooks, callbacks, mem, last>>

\* Lines 177-206: one evaluation of the loop condition and, when it holds,
\* one iteration of the body.
Scan(t) ==
  /\ frame[t].pc = "loop"
  /\ LET fr == frame[t]
     IN \E c \in ReadChar(fr.f.m_szParams, fr.ptr) :
          IF c = NUL \/ c = DC_SIGCHAR_ENDARG
            THEN /\ frame' = [frame EXCEPT ![t].ch = c, ![t].pc = "count"]
                 /\ UNCHANGED vm
          ELSE IF c = DC_SIGCHAR_VOID
            THEN /\ frame' = [frame EXCEPT ![t].ch = c, ![t].ptr = @ + 1,
                                           ![t].pc = "count"]
                 /\ UNCHANGED vm
          ELSE IF fr.pos >= Len(fr.args)
            THEN /\ frame' = [frame EXCEPT ![t].ch = c, ![t].pc = "done",
                                           ![t].result = "IndexError"]
                 /\ UNCHANGED vm
          ELSE IF c \notin ParamKinds
            THEN /\ frame' = [frame EXCEPT ![t].ch = c, ![t].pc = "done",
                                           ![t].result = "UnknownParam"]
                 /\ UNCHANGED vm
          ELSE IF ~Extractable(c, fr.args[fr.pos + 1])
            THEN /\ frame' = [frame EXCEPT ![t].ch = c, ![t].pc = "done",
                                           ![t].result = "ConvError"]
                 /\ UNCHANGED vm
          ELSE /\ vm' = dcArg(vm, PushedArg(c, fr.args[fr.pos + 1]))
               /\ frame' = [Interfere(frame, t) EXCEPT
                              ![t].ch = c, ![t].pos = @ + 1, ![t].ptr = @ + 1]
  /\ UNCHANGED <<hooks, callbacks, mem, last>>

\* Lines 208-212.
CheckCount(t) ==
  /\ frame[t].pc = "count"
  /\ LET fr == frame[t]
     IN IF fr.pos # Len(fr.args)
          THEN Raise(t, "ArgCount")
        ELSE IF fr.ch = NUL
          THEN Raise(t, "NoReturnType")
        ELSE frame' = [frame EXCEPT ![t].pc = "ret"]
  /\ UNCHANGED <<vm, hooks, callbacks, mem, last>>

\* The dcCall* of one case of the return switch: the VM is handed to the
\* function at the address as it is at that moment.
Invocation(fr, c) ==
  [addr |-> fr.f.m_ulAddr, fn |-> DcCallFn(c), mode |-> vm.mode, args |-> vm.args]

\* A dispatcher that calls before it has looked at the return kind.
Invoke_Unchecked(t) ==
  /\ frame[t].pc = "ret"
  /\ LET fr == frame[t]
     IN \E c \in ReadChar(fr.f.m_szParams, fr.ptr + 1) :
          frame' = [frame EXCEPT
                      ![t].ptr = @ + 1,
                      ![t].oob = OutOfBounds(fr.f.m_szParams, fr.ptr + 1),
                      ![t].pc = "done",
                      ![t].invoked = <<Invocation(fr, c)>>,
                      ![t].result = IF c \in ReturnKinds THEN "ok" ELSE "UnknownReturn"]
  /\ UNCHANGED <<vm, hooks, callbacks, mem, last>>

\* Lines 214-234: switch(*++ptr).
Invoke(t) ==
  /\ frame[t].pc = "ret"
  /\ LET fr == frame[t]
     IN \E c \in ReadChar(fr.f.m_szParams, fr.ptr + 1) :
          frame' = [frame EXCEPT
                      ![t].ptr = @ + 1,
                      ![t].oob = OutOfBounds(fr.f.m_szParams, fr.ptr + 1),
                      ![t].pc = "done",
                      ![t].invoked = IF c \in ReturnKinds
                                       THEN <<Invocation(fr, c)>> ELSE <<>>,
                      ![t].result = IF c \in ReturnKinds THEN "ok" ELSE "UnknownReturn"]
  /\ UNCHANGED <<vm, hooks, callbacks, mem, last>>

\* The return to the caller, by a return statement or a raised exception:
\* the activation is gone, the VM stays as the call left it.
Return(t) ==
  /\ frame[t].pc = "done"
  /\ frame' = [frame EXCEPT ![t] = IdleFrame]
  /\ UNCHANGED <<vm, hooks, callbacks, mem, last>>

\* ------------------------------------------------------------------------
\* The trampoline / hook bridge (lines 237-289)
\* ------------------------------------------------------------------------
HookTypes == {"HOOKTYPE_PRE", "HOOKTYPE_POST"}
Callables == {"cb"}

\* list::remove: every element equal to x goes.
Remove(list, x) == SelectSeq(list, LAMBDA y : y # x)

\* A trampoline call that dispatches to the hooked address itself.
CallTrampoline_ToTarget(t, f, args) ==
  /\ frame[t].pc = "idle"
  /\ IF ~IsValid(f.m_ulAddr)
       THEN /\ frame' = [frame EXCEPT ![t] =
                 [IdleFrame EXCEPT !.op = "CallTrampoline", !.target = f, !.f = f,
                                   !.args = args, !.pc = "done", !.result = "NullPointer"]]
            /\ UNCHANGED vm
     ELSE IF f.m_ulAddr \notin hooks
       THEN /\ frame' = [frame EXCEPT ![t] =
                 [IdleFrame EXCEPT !.op = "CallTrampoline", !.target = f, !.f = f,
                                   !.args = args, !.pc = "done", !.result = "NotHooked"]]
            /\ UNCHANGED vm
     ELSE Enter(t, "CallTrampoline", f, f, args)
  /\ UNCHANGED <<hooks, callbacks, mem, last>>

\* Lines 237-247: the null check, FindHook, then __call__ on a CFunction at
\* the hook's m_pTrampoline with the same convention and signature.
CallTrampoline(t, f, args) ==
  /\ frame[t].pc = "idle"
  /\ IF ~IsValid(f.m_ulAddr)
       THEN /\ frame' = [frame EXCEPT ![t] =
                 [IdleFrame EXCEPT !.op = "CallTrampoline", !.target = f, !.f = f,
                                   !.args = args, !.pc = "done", !.result = "NullPointer"]]
            /\ UNCHANGED vm
     ELSE IF f.m_ulAddr \notin hooks
       THEN /\ frame' = [frame EXCEPT ![t] =
                 [IdleFrame EXCEPT !.op = "CallTrampoline", !.target = f, !.f = f,
                                   !.args = args, !.pc = "done", !.result = "NotHooked"]]
            /\ UNCHANGED vm
     ELSE Enter(t, "CallTrampoline", f,
                CFunction(Trampoline(f.m_ulAddr), f.m_eConv, f.m_szParams), args)
  /\ UNCHANGED <<hooks, callbacks, mem, last>>

\* Lines 249-257 (AddPreHook, AddPostHook, lines 271-279): HookFunction
\* returns the hook of the address, installing it when there is none.
Hook(t, f, eType, pCallable) ==
  /\ frame[t].pc = "idle"
  /\ IF ~IsValid(f.m_ulAddr)
       THEN /\ frame' = [frame EXCEPT ![t] =
                 [IdleFrame EXCEPT !.op = "Hook", !.target = f, !.f = f,
                                   !.pc = "done", !.result = "NullPointer"]]
            /\ UNCHANGED <<hooks, callbacks>>
       ELSE /\ Len(callbacks[f.m_ulAddr][eType]) < MaxCallbacks
            /\ hooks' = hooks \cup {f.m_ulAddr}
            /\ callbacks' = [callbacks EXCEPT ![f.m_ulAddr][eType] = Append(@, pCallable)]
            /\ frame' = [frame EXCEPT ![t] =
                 [IdleFrame EXCEPT !.op = "Hook", !.target = f, !.f = f,
                                   !.pc = "done", !.result = "ok"]]
  /\ UNCHANGED <<vm, mem, last>>

\* Lines 259-269 (RemovePreHook, RemovePostHook, lines 281-289).
Unhook(t, f, eType, pCallable) ==
  /\ frame[t].pc = "idle"
  /\ IF ~IsValid(f.m_ulAddr)
       THEN /\ frame' = [frame EXCEPT ![t] =
                 [IdleFrame EXCEPT !.op = "Unhook", !.target = f, !.f = f,
                                   !.pc = "done", !.result = "NullPointer"]]
            /\ UNCHANGED callbacks
       ELSE /\ frame' = [frame EXCEPT ![t] =
                 [IdleFrame EXCEPT !.op = "Unhook", !.target = f, !.f = f,
                                   !.pc = "done", !.result = "ok"]]
            /\ IF f.m_ulAddr \notin hooks
                 THEN UNCHANGED callbacks
                 ELSE callbacks' = [callbacks EXCEPT ![f.m_ulAddr][eType] =
                                      Remove(@, pCallable)]
  /\ UNCHANGED <<vm, hooks, mem, last>>

\* ------------------------------------------------------------------------
\* CPointer: the raw memory accessors (lines 53-119)
\* ------------------------------------------------------------------------
\* sizeof(unsigned long) of the 32-bit build.
WordBytes == 4
\* The address of the one allocated block; address 0 is the null pointer.
BlockBase == 4
\* The address of the text handed to SetString.
TextAddr == 513
\* The mapped addresses: the block and what lies behind it.
MemTop == BlockBase + WordBytes + MaxTextLen
Addrs == BlockBase..MemTop

Pointers == {0, BlockBase}
Offsets == {0, WordBytes}
\* Addresses stored through SetPtr; 258 has two non-zero bytes.
PtrValues == {0, BlockBase, 258}
\* Texts of the character 'a'; strlen is the length of the sequence.
Texts == SeqsUpTo({97}, MaxTextLen)
Sizes == 0..MaxTextLen

RECURSIVE Pow256(_)
Pow256(i) == IF i = 0 THEN 1 ELSE 256 * Pow256(i - 1)

\* The bytes of an unsigned long, least significant first (x86).
WordByte(n, i) == (n \div Pow256(i)) % 256

\* *(unsigned long *) a
RECURSIVE ReadBytes(_, _, _)
ReadBytes(m, a, n) ==
  IF n = 0 THEN 0 ELSE m[a] + 256 * ReadBytes(m, a + 1, n - 1)
ReadWord(m, a) == ReadBytes(m, a, WordBytes)

\* *(unsigned long *) a = n
WriteWord(m, a, n) ==
  [x \in DOMAIN m |-> IF x >= a /\ x < a + WordBytes THEN WordByte(n, x - a) ELSE m[x]]

\* strcpy(a, text): the characters and the terminating NUL.
StrCpy(m, a, text) ==
  [x \in DOMAIN m |->
     IF x >= a /\ x < a + Len(text) THEN text[x - a + 1]
     ELSE IF x = a + Len(text) THEN 0
     ELSE m[x]]

\* UTIL_GetSize (lines 39-48): the usable size of the block for the pointer
\* the allocator returned; for any other pointer the query is undefined and
\* yields some number.
UTIL_GetSize(a) == IF a = BlockBase THEN {BlockSize} ELSE 0..BlockSize

NoOp ==
  [ op |-> "none", p |-> 0, off |-> 0, q |-> 0, text |-> <<>>, size |-> 0,
    isptr |-> FALSE, result |-> "none", written |-> {}, ret |-> 0 ]

\* Lines 79-98.
SetString(p, szText, iSize, iOffset, bIsPtr) ==
  /\ last.op = "none"
  /\ LET rec == [NoOp EXCEPT !.op = "SetString", !.p = p, !.off = iOffset,
                             !.text = szText, !.size = iSize, !.isptr = bIsPtr]
     IN IF ~IsValid(p)
          THEN /\ last' = [rec EXCEPT !.result = "NullPointer"]
               /\ UNCHANGED mem
          ELSE \E size \in (IF iSize = 0 THEN UTIL_GetSize(p + iOffset) ELSE {iSize}) :
                 IF size = 0
                   THEN /\ last' = [rec EXCEPT !.result = "SizeUnavailable"]
                        /\ UNCHANGED mem
                 ELSE IF Len(szText) > size
                   THEN /\ last' = [rec EXCEPT !.size = size, !.result = "BufferOverflow"]
                        /\ UNCHANGED mem
                 ELSE IF bIsPtr
                   THEN /\ mem' = WriteWord(mem, p + iOffset, TextAddr)
                        /\ last' = [rec EXCEPT !.size = size, !.result = "ok",
                                      !.written = (p + iOffset)..(p + iOffset + WordBytes - 1)]
                 ELSE /\ p + iOffset + Len(szText) <= MemTop
                      /\ mem' = StrCpy(mem, p + iOffset, szText)
                      /\ last' = [rec EXCEPT !.size = size, !.result = "ok",
                                    !.written = (p + iOffset)..(p + iOffset + Len(szText))]
  /\ UNCHANGED <<vm, frame, hooks, callbacks>>

\* Lines 100-106.
GetPtr(p, iOffset) ==
  /\ last.op = "none"
  /\ LET rec == [NoOp EXCEPT !.op = "GetPtr", !.p = p, !.off = iOffset]
     IN IF ~IsValid(p)
          THEN last' = [rec EXCEPT !.result = "NullPointer"]
          ELSE last' = [rec EXCEPT !.result = "ok", !.ret = ReadWord(mem, p + iOffset)]
  /\ UNCHANGED <<vm, frame, hooks, callbacks, mem>>

\* Lines 108-114.
SetPtr(p, q, iOffset) ==
  /\ last.op = "none"
  /\ LET rec == [NoOp EXCEPT !.op = "SetPtr", !.p = p, !.off = iOffset, !.q = q]
     IN IF ~IsValid(p)
          THEN /\ last' = [rec EXCEPT !.result = "NullPointer"]
               /\ UNCHANGED mem
          ELSE /\ mem' = WriteWord(mem, p, q)
               /\ last' = [rec EXCEPT !.result = "ok",
                             !.written = p..(p + WordBytes - 1)]
  /\ UNCHANGED <<vm, frame, hooks, callbacks>>

\* The accessor has returned; the memory stays as it left it.
Forget ==
  /\ last.op # "none"
  /\ last' = NoOp
  /\ UNCHANGED <<vm, frame, hooks, callbacks, mem>>

InitVM == [mode |-> "DC_CALL_C_DEFAULT", args |-> <<>>]

Init ==
  /\ vm = InitVM
  /\ frame = [t \in Threads |-> IdleFrame]
  /\ hooks = {}
  /\ callbacks = [a \in {FuncAddr} |-> [ty \in HookTypes |-> <<>>]]
  /\ mem = [a \in Addrs |-> 0]
  /\ last = NoOp

\* The serialized dispatcher: one caller, one call after the other.
Next ==
  \/ /\ frame[1].pc = "idle"
     /\ \E f \in SerialFunctions, a \in SerialArgLists : Call(1, f, a)
  \/ SetMode(1)
  \/ Scan(1)
  \/ CheckCount(1)
  \/ Invoke(1)
  \/ Return(1)

Spec == Init /\ [][Next]_vars

\* The hook bridge: one caller hooks, unhooks, calls and calls originals.
NextHook ==
  \/ /\ frame[1].pc = "idle"
     /\ \E f \in HookFunctions, a \in HookArgLists : Call(1, f, a)
  \/ /\ frame[1].pc = "idle"
     /\ \E f \in HookFunctions, a \in HookArgLists : CallTrampoline(1, f, a)
  \/ \E f \in HookTargets, ty \in HookTypes, cb \in Callables : Hook(1, f, ty, cb)
  \/ \E f \in HookTargets, ty \in HookTypes, cb \in Callables : Unhook(1, f, ty, cb)
  \/ SetMode(1)
  \/ Scan(1)
  \/ CheckCount(1)
  \/ Invoke(1)
  \/ Return(1)

SpecHook == Init /\ [][NextHook]_vars
\* The raw memory accessors on the one block.
NextMem ==
  \/ /\ last.op = "none"
     /\ \E p \in Pointers, text \in Texts, size \in Sizes, off \in Offsets, isptr \in BOOLEAN :
          SetString(p, text, size, off, isptr)
  \/ \E p \in Pointers, off \in Offsets : GetPtr(p, off)
  \/ \E p \in Pointers, q \in PtrValues, off \in Offsets : SetPtr(p, q, off)
  \/ Forget

SpecMem == Init /\ [][NextMem]_vars
\* The dispatcher called from two threads with nothing serializing them:
\* the steps of the two calls on the one VM interleave in every order.
NextConc ==
  \E t \in Threads :
    \/ /\ frame[t].pc = "idle"
       /\ \E f \in ConcFunctions, a \in ConcArgLists : Call(t, f, a)
    \/ SetMode(t)
    \/ Scan(t)
    \/ CheckCount(t)
    \/ Invoke(t)
    \/ Return(t)

SpecConc == Init /\ [][NextConc]_vars
\* ========================================================================
\* The claims
\* ========================================================================
Errors ==
  { "NullPointer", "IndexError", "UnknownParam", "ConvError", "ArgCount",
    "NoReturnType", "UnknownReturn", "NotHooked" }

\* The index of the first delimiter of a signature, 0 when it has none.
DelimiterAt(sig) ==
  IF \E k \in 1..Len(sig) : sig[k] = DC_SIGCHAR_ENDARG
    THEN CHOOSE k \in 1..Len(sig) :
           sig[k] = DC_SIGCHAR_ENDARG /\ \A j \in 1..(k - 1) : sig[j] # DC_SIGCHAR_ENDARG
    ELSE 0

\* The signature grammar: parameter kinds (or the lone Void marker), one
\* delimiter, exactly one return kind, nothing else.
MatchesGrammar(sig) ==
  LET d == DelimiterAt(sig)
  IN /\ d > 0
     /\ \/ \A j \in 1..(d - 1) : sig[j] \in ParamKinds
        \/ d = 2 /\ sig[1] = DC_SIGCHAR_VOID
     /\ Len(sig) = d + 1
     /\ sig[d + 1] \in ReturnKinds

\* The number of parameter kinds before the delimiter, Void excluded.
ParamCount(sig) ==
  Cardinality({ j \in 1..(DelimiterAt(sig) - 1) : sig[j] # DC_SIGCHAR_VOID })

\* Every argument that has a parameter kind converts to it.
Convertible(sig, args) ==
  \A j \in 1..Len(args) :
    (j < DelimiterAt(sig) /\ sig[j] \in ParamKinds) => Extractable(sig[j], args[j])

\* Void after at least one other parameter kind.
NonLeadingVoid(sig) ==
  \E k \in 2..Len(sig) :
    sig[k] = DC_SIGCHAR_VOID /\ \A j \in 1..(k - 1) : sig[j] \in ParamKinds

\* The arguments of a call converted per its signature, in parameter order.
ExpectedStack(sig, args) ==
  [k \in 1..Len(args) |-> PushedArg(sig[k], args[k])]

\* The invoke step of a thread ran on exactly that call's own stack and mode.
OwnInvoke(t) ==
  /\ Len(frame[t].f.m_szParams) >= Len(frame[t].args)
  /\ frame[t].invoked[1].args = ExpectedStack(frame[t].f.m_szParams, frame[t].args)
  /\ frame[t].invoked[1].mode = GetDynCallConvention(frame[t].f.m_eConv)

\* C1: a call on a valid address with a grammatical signature and
\* convertible arguments fails with the argument-count error whenever the
\* number of parameter kinds differs from the number of arguments, too few
\* or too many, and never fails with it when the two are equal.
C1_ArityError ==
  \A t \in Threads :
    LET fr == frame[t]
    IN (/\ fr.pc = "done" /\ fr.op = "__call__" /\ IsValid(fr.f.m_ulAddr)
        /\ MatchesGrammar(fr.f.m_szParams)
        /\ Convertible(fr.f.m_szParams, fr.args))
       => ((fr.result = "ArgCount") <=> (ParamCount(fr.f.m_szParams) # Len(fr.args)))

\* C2: the invoke step is reached only for signatures that match the
\* grammar exactly, and no character past the terminator of the signature
\* is ever read.
C2_GrammarOnly ==
  \A t \in Threads :
    /\ frame[t].invoked # <<>> => MatchesGrammar(frame[t].f.m_szParams)
    /\ ~frame[t].oob

\* C3: a call that ends in an error has not run the invoke step; the invoke
\* step runs only with every argument pushed and the count check passed.
C3_NoPartialCall ==
  \A t \in Threads :
    LET fr == frame[t]
    IN /\ fr.result \in Errors => fr.invoked = <<>>
       /\ fr.invoked # <<>> =>
            /\ fr.result = "ok"
            /\ fr.pos = Len(fr.args)
            /\ Len(fr.invoked[1].args) = fr.pos

\* A call that failed the count check after it had pushed an argument.
C3_Witness ==
  /\ frame[1].pc = "done"
  /\ frame[1].result = "ArgCount"
  /\ frame[1].touched
  /\ Len(vm.args) > 0

\* C4: in a sequence of serialized calls, whenever the invoke step runs the
\* VM holds exactly the current call's arguments converted per the current
\* signature, in order, and the mode of the current convention; nothing of
\* an earlier call remains.
C4_Isolation ==
  \A t \in Threads : frame[t].invoked # <<>> => OwnInvoke(t)

\* An invoke with arguments of its own, entered on a VM that still held the
\* arguments an earlier call had pushed.
C4_Witness ==
  /\ frame[1].invoked # <<>>
  /\ frame[1].stale
  /\ Len(frame[1].args) > 0

\* C5: a call on address 0 fails with the null-pointer error whatever the
\* signature and the arguments, and has not touched the VM.
C5_NullAddress ==
  \A t \in Threads :
    LET fr == frame[t]
    IN (fr.op = "__call__" /\ fr.f.m_ulAddr = 0) =>
         /\ fr.pc = "done"
         /\ fr.result = "NullPointer"
         /\ ~fr.touched
         /\ fr.invoked = <<>>

\* A null call with a signature and arguments, on a VM that keeps the
\* arguments of an earlier call.
C5_Witness ==
  /\ frame[1].op = "__call__"
  /\ frame[1].f.m_ulAddr = 0
  /\ frame[1].result = "NullPointer"
  /\ Len(frame[1].f.m_szParams) > 0
  /\ Len(frame[1].args) > 0
  /\ Len(vm.args) > 0

\* C6: no signature in which Void follows another parameter kind is
\* dispatched to the invoke step.
C6_VoidLeadingOnly ==
  \A t \in Threads :
    (frame[t].invoked # <<>> /\ ~frame[t].oob) => ~NonLeadingVoid(frame[t].f.m_szParams)

\* C7 as stated: a trampoline call fails with the not-hooked error if and
\* only if the hook manager has no hook for the address of the target.
C7_NotHookedIff ==
  \A t \in Threads :
    frame[t].op = "CallTrampoline" =>
      ((frame[t].result = "NotHooked") <=> (frame[t].target.m_ulAddr \notin hooks))

\* C7 amended: a trampoline call on address 0 fails with the null-pointer
\* error; on any other address it fails with the not-hooked error if and
\* only if the address has no hook; when it has one, the call dispatches
\* with the same convention and signature to the trampoline of the hook,
\* so the invoke step runs at the trampoline, which is not a hooked address
\* and enters no callback.
C7_TrampolineDispatch ==
  \A t \in Threads :
    LET fr == frame[t]
    IN fr.op = "CallTrampoline" =>
         /\ fr.target.m_ulAddr = 0 => fr.result = "NullPointer"
         /\ fr.target.m_ulAddr # 0 =>
              ((fr.result = "NotHooked") <=> (fr.target.m_ulAddr \notin hooks))
         /\ fr.target.m_ulAddr \in hooks =>
              /\ fr.f = CFunction(Trampoline(fr.target.m_ulAddr),
                                  fr.target.m_eConv, fr.target.m_szParams)
              /\ fr.invoked # <<>> =>
                   /\ fr.invoked[1].addr = Trampoline(fr.target.m_ulAddr)
                   /\ fr.invoked[1].addr # fr.target.m_ulAddr
                   /\ fr.invoked[1].addr \notin hooks

\* The original of a function with a registered pre-callback was invoked.
C7_Witness ==
  /\ frame[1].op = "CallTrampoline"
  /\ frame[1].invoked # <<>>
  /\ callbacks[frame[1].target.m_ulAddr]["HOOKTYPE_PRE"] # <<>>

\* C8: with two unserialized callers an invoke step can run on a stack or
\* mode that is not its call's own (the witness), and it does so only when
\* the other call changed the VM between this call's reset and its invoke:
\* nothing in the dispatcher excludes that, serializing the calls does.
C8_CorruptOnlyByInterference ==
  \A t \in Threads :
    (frame[t].invoked # <<>> /\ ~OwnInvoke(t)) => frame[t].interfered

\* An invoke step that ran on a stack or mode not its call's own.
C8_Witness ==
  \E t \in Threads : frame[t].invoked # <<>> /\ ~OwnInvoke(t)

\* C9: a size-checked string write either fails and writes nothing, or the
\* bytes it writes, terminating NUL included, do not exceed the capacity.
C9_WriteWithinCapacity ==
  (last.op = "SetString" /\ ~last.isptr) =>
    IF last.result = "ok"
      THEN Cardinality(last.written) <= last.size
      ELSE last.written = {}

\* C10: after SetPtr(q, k) the word GetPtr(k) reads at p + k is q, and
\* SetPtr(q, k) wrote the word at p + k and nothing else.
C10_PtrRoundTrip ==
  (last.op = "SetPtr" /\ last.result = "ok") =>
    /\ ReadWord(mem, last.p + last.off) = last.q
    /\ last.written = (last.p + last.off)..(last.p + last.off + WordBytes - 1)
====
